---- MODULE Spec2Model ----
(***************************************************************************)
(* RAFScheduler (library/RAFScheduler.ts): two registries of tasks         *)
(* (intervals, timeouts), a set of locked callbacks and a running flag,    *)
(* driven by the host's requestAnimationFrame and performance.now().       *)
(*                                                                         *)
(* The host is modelled by                                                 *)
(*   now       the value performance.now() returns (milliseconds),         *)
(*   rafQueue  the callbacks requested for the next frame, in the order    *)
(*             of the requests,                                            *)
(*   rafFrame  the callbacks of the frame being delivered that have not    *)
(*             run yet.                                                    *)
(* A Map is a sequence of [key, ...value fields] in insertion order; a     *)
(* task (a function object used as key) is a name.                         *)
(*                                                                         *)
(* Spec             the scheduler under any calls and task bodies;         *)
(* SpecAnyDuration  the same, durations below zero included;               *)
(* SpecApp          class App of main.ts on a fair host;                   *)
(* SpecDispatcher   EventDispatcher (its Maps are functions on their keys, *)
(*                  its Sets and listener lists are sequences), called     *)
(*                  from outside its callbacks;                            *)
(* SpecLogger       Logger of any level and styles, its methods called     *)
(*                  with one or two messages;                              *)
(* SpecFrame        three tasks registered before exec(), whose bodies     *)
(*                  cancel, lock and unlock one another;                   *)
(* SpecFair         two tasks registered before exec(), on a fair host.    *)
(***************************************************************************)
EXTENDS Integers, Sequences, FiniteSets, TLC

\* ---------------------------------------------------------------- bounds
\* performance.now() never exceeds MaxNow in the model.
MaxNow == 2500
\* The public methods are called at most MaxCalls times, task bodies included.
MaxCalls == 4

\* ------------------------------------------------------ program constants
\* 1_000 in `Math.floor( ( now - task.startTime ) / 1_000 )`.
MsPerSecond == 1000

\* ------------------------------------------------------ input domains
Tasks == {"A", "B"}
Durations == {0, 1000, 2000}
\* Amounts by which performance.now() advances between two steps.
ClockSteps == {1000, 2500}
\* Amounts by which performance.now() advances between two consecutive
\* reads inside one exec() call.
ExecSkews == {0, 1000}

\* The dispatcher is called at most MaxEvents times, with these event types
\* and callbacks; a callback has at most MaxOnce once-wrappers listening
\* for one type at a time.
MaxEvents == 4

MaxOnce == 2

Types == {"e1", "e2"}

Callbacks == {"f", "g"}

\* `cb = null`
Null == "null"

\* The logger's methods are called at most MaxLogs times, with one or two
\* arguments taken from Messages.
MaxLogs == 2

ArgCounts == {1, 2}

Messages == {"m1", "m2"}

\* ------------------------------------------------------ Map helpers
MapHas(m, k) == \E i \in 1..Len(m) : m[i].key = k

MapGet(m, k) == m[CHOOSE i \in 1..Len(m) : m[i].key = k]

\* Map.prototype.set: an existing key keeps its position, a new key is
\* appended.
MapSet(m, k, v) ==
    IF MapHas(m, k)
    THEN [i \in 1..Len(m) |-> IF m[i].key = k THEN v ELSE m[i]]
    ELSE Append(m, v)

MapDelete(m, k) == SelectSeq(m, LAMBDA e : e.key # k)

\* ------------------------------------------------------ state
VARIABLES
    intervals,        \* _intervals : Map<Task, {duration, lastTime, startTime}>
    timeouts,         \* _timeouts : Map<Task, {duration, startTime}>
    lockedCallbacks,  \* _lockedCallbacks : Set<Task>
    running,          \* _running
    now,              \* performance.now()
    rafQueue,         \* requestAnimationFrame callbacks of the next frame
    rafFrame,         \* callbacks of the running frame still to be called
    last,             \* the scheduler step taken last and what it invoked
    timeoutInvoked,     \* per task: invocations by a timeout tick (0, 1, 2 = many)
    tickedAt,         \* per task: clock value of its latest interval tick
    held,             \* the chains whose latest tick found the task locked
    stopped,          \* the tasks a callback of the running frame cancelled or locked
    calls,            \* number of calls of public methods so far
    eventTarget,      \* _eventTarget : per type, its list of listeners
    lockedEvents,     \* _lockedEvents : Map<string, Set<EventCallback>>
    onceCallbacks,    \* _onceCallbacks : Map<EventCallback, wrapper>
    callbacks,        \* _callbacks : Map<string, Set<EventCallback>>
    eventCounts,      \* _eventCounts : Map<string, number>
    dispatched,       \* the dispatcher call made last and what it invoked
    events,           \* number of calls of the dispatcher's methods so far
    execCalls,        \* per type: number of exec( type ) calls so far
    invocations,      \* per type and callback: number of calls of the callback
    level,            \* Logger.level
    styles,           \* Logger.styles
    console,          \* what console.log was called with, in order
    logCalls          \* the calls of the logger's methods so far, in order

\* The variables of the dispatcher and those of the scheduler and its host.
dispatcher == <<eventTarget, lockedEvents, onceCallbacks, callbacks,
                eventCounts, dispatched, events, execCalls, invocations>>

logger == <<level, styles, console, logCalls>>

scheduler == <<intervals, timeouts, lockedCallbacks, running, now, rafQueue,
               rafFrame, last, timeoutInvoked, tickedAt, held, stopped,
               calls>>

vars == <<intervals, timeouts, lockedCallbacks, running, now, rafQueue,
          rafFrame, last, timeoutInvoked, tickedAt, held, stopped, calls,
          eventTarget, lockedEvents, onceCallbacks, callbacks, eventCounts,
          dispatched, events, execCalls, invocations,
          level, styles, console, logCalls>>

\* The scheduler object together with the host's callback list.
Sched == [intervals |-> intervals, timeouts |-> timeouts,
          lockedCallbacks |-> lockedCallbacks, running |-> running,
          rafQueue |-> rafQueue]

\* ------------------------------------------------------ operations
\* requestAnimationFrame( tick ), tick being the closure of kind k
\* ("interval" or "timeout") over callback cb.
requestAnimationFrame(S, k, cb) ==
    [S EXCEPT !.rafQueue = Append(@, [kind |-> k, task |-> cb])]

\* Mutant: registration requests the first frame itself, before exec().
interval_Arms(S, cb, duration) ==
    requestAnimationFrame(
        [S EXCEPT !.intervals =
            MapSet(@, cb, [key |-> cb, duration |-> duration,
                           lastTime |-> 0, startTime |-> 0])],
        "interval", cb)

\* Mutant: registration adds an entry without replacing the task's old one.
interval_Duplicates(S, cb, duration) ==
    [S EXCEPT !.intervals =
        Append(@, [key |-> cb, duration |-> duration,
                   lastTime |-> 0, startTime |-> 0])]

\* Mutant: a registration on a running scheduler starts a chain.
interval_ArmsLate(S, cb, duration) ==
    LET S1 == [S EXCEPT !.intervals =
                  MapSet(@, cb, [key |-> cb, duration |-> duration,
                                 lastTime |-> 0, startTime |-> 0])]
    IN IF S.running THEN requestAnimationFrame(S1, "interval", cb) ELSE S1

\* Mutant: a registration replaces the registry by the one entry.
interval_Only(S, cb, duration) ==
    [S EXCEPT !.intervals =
        <<[key |-> cb, duration |-> duration, lastTime |-> 0, startTime |-> 0]>>]

interval(S, cb, duration) ==
    [S EXCEPT !.intervals =
        MapSet(@, cb, [key |-> cb, duration |-> duration,
                       lastTime |-> 0, startTime |-> 0])]

timeout(S, cb, duration) ==
    [S EXCEPT !.timeouts =
        MapSet(@, cb, [key |-> cb, duration |-> duration, startTime |-> 0])]

\* Mutant: cancel forgets the timeout registry.
cancel_KeepsTimeout(S, cb) ==
    [S EXCEPT !.intervals = MapDelete(@, cb),
              !.lockedCallbacks = @ \ {cb}]

\* Mutant: cancel leaves the locked set alone.
cancel_KeepsLock(S, cb) ==
    [S EXCEPT !.intervals = MapDelete(@, cb),
              !.timeouts = MapDelete(@, cb)]

\* Mutant: cancel empties the locked set.
cancel_ClearsLocks(S, cb) ==
    [S EXCEPT !.intervals = MapDelete(@, cb),
              !.timeouts = MapDelete(@, cb),
              !.lockedCallbacks = {}]

cancel(S, cb) ==
    [S EXCEPT !.intervals = MapDelete(@, cb),
              !.timeouts = MapDelete(@, cb),
              !.lockedCallbacks = @ \ {cb}]

\* Mutant: lock takes the task out of the interval registry.
lock_Deregisters(S, cb) ==
    [S EXCEPT !.intervals = MapDelete(@, cb),
              !.lockedCallbacks = @ \cup {cb}]

lock(S, cb) == [S EXCEPT !.lockedCallbacks = @ \cup {cb}]

\* Mutant: unlock leaves the locked set alone.
unlock_Keeps(S, cb) == S

unlock(S, cb) == [S EXCEPT !.lockedCallbacks = @ \ {cb}]

isLocked(S, cb) == cb \in S.lockedCallbacks

has(S, cb) == MapHas(S.intervals, cb) \/ MapHas(S.timeouts, cb)

\* Mutant: exec() without the `if ( this._running ) return` guard.
exec_NoGuard(S, reads) ==
    LET n == Len(S.intervals)
        m == Len(S.timeouts)
    IN [S EXCEPT
          !.running = TRUE,
          !.intervals = [i \in 1..n |->
              [S.intervals[i] EXCEPT !.lastTime = reads[i],
                                     !.startTime = reads[i]]],
          !.timeouts = [j \in 1..m |->
              [S.timeouts[j] EXCEPT !.startTime = reads[n + j]]],
          !.rafQueue = @ \o
              [i \in 1..n |-> [kind |-> "interval", task |-> S.intervals[i].key]] \o
              [j \in 1..m |-> [kind |-> "timeout", task |-> S.timeouts[j].key]]]

\* exec(): reads[i] is the value of the i-th performance.now() call, one
\* per entry, the intervals first, each Map in insertion order.
exec(S, reads) ==
    IF S.running
    THEN S
    ELSE LET n == Len(S.intervals)
             m == Len(S.timeouts)
         IN [S EXCEPT
               !.running = TRUE,
               !.intervals = [i \in 1..n |->
                   [S.intervals[i] EXCEPT !.lastTime = reads[i],
                                          !.startTime = reads[i]]],
               !.timeouts = [j \in 1..m |->
                   [S.timeouts[j] EXCEPT !.startTime = reads[n + j]]],
               !.rafQueue = @ \o
                   [i \in 1..n |-> [kind |-> "interval", task |-> S.intervals[i].key]] \o
                   [j \in 1..m |-> [kind |-> "timeout", task |-> S.timeouts[j].key]]]

\* ------------------------------------------------------ task bodies
\* What a task does when it is invoked: nothing to the scheduler, or one
\* call of a public method (the scheduler is reentrant).
NoBody == [op |-> "none", task |-> "A", duration |-> 0]

Bodies ==
    {NoBody}
    \cup [op : {"lock", "unlock", "cancel"}, task : Tasks, duration : {0}]
    \cup [op : {"interval", "timeout"}, task : Tasks, duration : Durations]
    \cup [op : {"exec"}, task : {"A"}, duration : {0}]

\* Mutant: what a body calls takes effect when the frame is over.
Call_Deferred(S, body, t) == S

\* The scheduler after the body ran at clock value t.
Call(S, body, t) ==
    CASE body.op = "lock" -> lock(S, body.task)
      [] body.op = "unlock" -> unlock(S, body.task)
      [] body.op = "cancel" -> cancel(S, body.task)
      [] body.op = "interval" -> interval(S, body.task, body.duration)
      [] body.op = "timeout" -> timeout(S, body.task, body.duration)
      [] body.op = "exec" ->
            exec(S, [i \in 1..(Len(S.intervals) + Len(S.timeouts)) |-> t])
      [] OTHER -> S

\* The body put another entry object under cb in the registry of kind k, or
\* removed it: the object a tick read before the call is no longer the
\* registry's.
Replaces(body, k, cb) ==
    /\ body.task = cb
    /\ body.op \in {k, "cancel"}

\* ------------------------------------------------------ ticks
\* Mutant: the duration is not compared, the task fires on every tick.
intervalFires_Early(S, cb, task, delta) == cb \notin S.lockedCallbacks

\* Mutant: `>` for `>=`, and no special case for duration 0.
intervalFires_Strict(S, cb, task, delta) ==
    /\ cb \notin S.lockedCallbacks
    /\ delta > task.duration

\* `!this._lockedCallbacks.has( callback )` and
\* `task.duration === 0 || delta >= task.duration`
intervalFires(S, cb, task, delta) ==
    /\ cb \notin S.lockedCallbacks
    /\ (task.duration = 0 \/ delta >= task.duration)

\* Mutant: lastTime advances by one period, so that missed periods are
\* replayed on the following ticks.
intervalFired_Replays(S, cb, task, t, body) ==
    IF Replaces(body, "interval", cb)
    THEN S
    ELSE [S EXCEPT !.intervals =
            MapSet(@, cb, [task EXCEPT !.lastTime = @ + task.duration])]

\* `task.lastTime = now`, task being the object the tick read before the
\* callback ran: the write reaches the registry unless the body replaced
\* or removed that object.
intervalFired(S, cb, task, t, body) ==
    IF Replaces(body, "interval", cb)
    THEN S
    ELSE [S EXCEPT !.intervals = MapSet(@, cb, [task EXCEPT !.lastTime = t])]

\* Mutant: a tick that leaves its task locked requests no further frame.
intervalNext_DropsLocked(S, cb) ==
    IF MapHas(S.intervals, cb) /\ cb \notin S.lockedCallbacks
    THEN requestAnimationFrame(S, "interval", cb)
    ELSE S

\* `if ( this._intervals.has( callback ) ) requestAnimationFrame( tick )`
intervalNext(S, cb) ==
    IF MapHas(S.intervals, cb)
    THEN requestAnimationFrame(S, "interval", cb)
    ELSE S

Skipped(S) == [S |-> S, fired |-> FALSE, delta |-> 0, elapsed |-> 0,
               duration |-> 0, body |-> NoBody]

\* Mutant: elapsed counts the seconds since the last invocation, not since
\* the start.
tickInterval_ElapsedSinceFire(S, cb, t, body) ==
    IF ~MapHas(S.intervals, cb)
    THEN Skipped(S)
    ELSE LET task == MapGet(S.intervals, cb)
             delta == t - task.lastTime
             elapsed == delta \div MsPerSecond
             fire == intervalFires(S, cb, task, delta)
             S1 == IF fire
                   THEN intervalFired(Call(S, body, t), cb, task, t, body)
                   ELSE S
         IN [S |-> intervalNext(S1, cb), fired |-> fire,
             delta |-> IF fire THEN delta ELSE 0,
             elapsed |-> IF fire THEN elapsed ELSE 0,
             duration |-> IF fire THEN task.duration ELSE 0,
             body |-> IF fire THEN body ELSE NoBody]

\* The tick closure of _scheduleInterval( cb ), run at clock value t.
tickInterval(S, cb, t, body) ==
    IF ~MapHas(S.intervals, cb)
    THEN Skipped(S)
    ELSE LET task == MapGet(S.intervals, cb)
             delta == t - task.lastTime
             elapsed == (t - task.startTime) \div MsPerSecond
             fire == intervalFires(S, cb, task, delta)
             S1 == IF fire
                   THEN intervalFired(Call(S, body, t), cb, task, t, body)
                   ELSE S
         IN [S |-> intervalNext(S1, cb), fired |-> fire,
             delta |-> IF fire THEN delta ELSE 0,
             elapsed |-> IF fire THEN elapsed ELSE 0,
             duration |-> IF fire THEN task.duration ELSE 0,
             body |-> IF fire THEN body ELSE NoBody]

\* Mutant: the locked set is not consulted.
timeoutFires_IgnoresLock(S, cb, task, delta) == delta >= task.duration

\* `!this._lockedCallbacks.has( callback )` and `delta >= task.duration`
timeoutFires(S, cb, task, delta) ==
    /\ cb \notin S.lockedCallbacks
    /\ delta >= task.duration

\* Mutant: the entry stays and the chain goes on, as for an interval.
timeoutFired_Rearms(S, cb) == requestAnimationFrame(S, "timeout", cb)

\* Mutant: the chain stops but the entry is not deleted.
timeoutFired_KeepsEntry(S, cb) == S

\* Mutant: a timeout that fired is taken out of both registries and
\* unlocked, as by cancel().
timeoutFired_Cancels(S, cb) ==
    [S EXCEPT !.intervals = MapDelete(@, cb),
              !.timeouts = MapDelete(@, cb),
              !.lockedCallbacks = @ \ {cb}]

\* `this._timeouts.delete( callback )`, after the callback ran; no further
\* frame is requested.
timeoutFired(S, cb) == [S EXCEPT !.timeouts = MapDelete(@, cb)]

\* Mutant: a timeout that is not yet due requests no further frame.
timeoutWaits_DropsEarly(S, cb, locked) ==
    IF locked THEN requestAnimationFrame(S, "timeout", cb) ELSE S

\* Mutant: a locked timeout requests no further frame.
timeoutWaits_DropsLocked(S, cb, locked) ==
    IF locked THEN S ELSE requestAnimationFrame(S, "timeout", cb)

\* Mutant: a locked tick pushes the deadline of the timeout forward by its
\* duration.
timeoutWaits_Postpones(S, cb, locked) ==
    requestAnimationFrame(
        IF locked
        THEN [S EXCEPT !.timeouts =
                MapSet(@, cb, [MapGet(@, cb) EXCEPT !.startTime = @ + MapGet(S.timeouts, cb).duration])]
        ELSE S,
        "timeout", cb)

\* The two branches that wait: `requestAnimationFrame( tick )` when the
\* task is locked and when it is not yet due.
timeoutWaits(S, cb, locked) == requestAnimationFrame(S, "timeout", cb)

\* The tick closure of _scheduleTimeout( cb ), run at clock value t.
tickTimeout(S, cb, t, body) ==
    IF ~MapHas(S.timeouts, cb)
    THEN Skipped(S)
    ELSE LET task == MapGet(S.timeouts, cb)
             delta == t - task.startTime
             elapsed == (t - task.startTime) \div MsPerSecond
             fire == timeoutFires(S, cb, task, delta)
         IN [S |-> IF fire
                   THEN timeoutFired(Call(S, body, t), cb)
                   ELSE timeoutWaits(S, cb, cb \in S.lockedCallbacks),
             fired |-> fire,
             delta |-> IF fire THEN delta ELSE 0,
             elapsed |-> IF fire THEN elapsed ELSE 0,
             duration |-> IF fire THEN task.duration ELSE 0,
             body |-> IF fire THEN body ELSE NoBody]

\* ------------------------------------------------------ EventDispatcher
\* A Map as a function on its keys.
Put(m, k, v) == [x \in DOMAIN m \cup {k} |-> IF x = k THEN v ELSE m[x]]

Drop(m, k) == [x \in DOMAIN m \ {k} |-> m[x]]

\* A Set, and the listener list of an EventTarget, as the sequence of its
\* elements in insertion order: adding an element it holds changes nothing.
SetHas(s, x) == \E i \in 1..Len(s) : s[i] = x

SetAdd(s, x) == IF SetHas(s, x) THEN s ELSE Append(s, x)

SetDelete(s, x) == SelectSeq(s, LAMBDA y : y # x)

\* The listeners: a callback itself, or the n-th onceWrapper closure made
\* by once( type, cb ).
Direct(cb) == [wrapper |-> FALSE, type |-> "", cb |-> cb, id |-> 0]

Wrapper(type, cb, n) == [wrapper |-> TRUE, type |-> type, cb |-> cb, id |-> n]

\* The dispatcher object.
Dispatcher == [eventTarget |-> eventTarget, lockedEvents |-> lockedEvents,
               onceCallbacks |-> onceCallbacks, callbacks |-> callbacks,
               eventCounts |-> eventCounts]

\* What a call gives: the dispatcher after it, the listeners it invoked,
\* in order, and whether it threw.
Returned(D) == [D |-> D, invoked |-> <<>>, threw |-> FALSE]

Threw(D) == [D |-> D, invoked |-> <<>>, threw |-> TRUE]

EventDispatcher_on(D, type, cb) ==
    Returned(
        [D EXCEPT
           !.callbacks =
               Put(@, type, SetAdd(IF type \in DOMAIN @ THEN @[type] ELSE <<>>, cb)),
           !.eventTarget[type] = SetAdd(@, Direct(cb))])

\* once(): n tells the new onceWrapper from those listening already.
EventDispatcher_once(D, type, cb, n) ==
    Returned(
        [D EXCEPT
           !.onceCallbacks = Put(@, cb, Wrapper(type, cb, n)),
           !.eventTarget[type] = SetAdd(@, Wrapper(type, cb, n))])

\* `this._eventCounts.set( type, count + 1 )`, or 1 for the first.
Counted(D, type) ==
    [D EXCEPT !.eventCounts =
        Put(@, type, IF type \in DOMAIN @ THEN @[type] + 1 ELSE 1)]

\* dispatchEvent: every listener of the type is called, in order; a
\* onceWrapper removes itself.
dispatchEvent(D, type) ==
    [D |-> [D EXCEPT !.eventTarget[type] = SelectSeq(@, LAMBDA l : ~l.wrapper)],
     invoked |-> D.eventTarget[type],
     threw |-> FALSE]

\* Mutant: exec() dispatches through the EventTarget whatever is locked.
EventDispatcher_exec_IgnoresLocks(D, type) ==
    LET r == dispatchEvent(D, type)
    IN [r EXCEPT !.D = Counted(r.D, type)]

\* exec(): with a locked set for the type, the callbacks of _callbacks that
\* are not in it are called (`for ... of undefined` throws a TypeError);
\* without one, the event is dispatched.
EventDispatcher_exec(D, type) ==
    IF type \in DOMAIN D.lockedEvents
    THEN IF type \notin DOMAIN D.callbacks
         THEN Threw(D)
         ELSE [D |-> Counted(D, type),
               invoked |->
                   LET open == SelectSeq(D.callbacks[type],
                                   LAMBDA c : c \notin D.lockedEvents[type])
                   IN [i \in 1..Len(open) |-> Direct(open[i])],
               threw |-> FALSE]
    ELSE LET r == dispatchEvent(D, type)
         IN [r EXCEPT !.D = Counted(r.D, type)]

EventDispatcher_lock(D, type, cb) ==
    LET D1 == IF type \in DOMAIN D.lockedEvents THEN D
              ELSE [D EXCEPT !.lockedEvents = Put(@, type, {})]
    IN IF cb # Null
       THEN Returned([D1 EXCEPT !.lockedEvents[type] = @ \cup {cb}])
       ELSE IF type \notin DOMAIN D1.callbacks
            THEN Threw(D1)
            ELSE Returned(
                   [D1 EXCEPT !.lockedEvents[type] =
                       @ \cup {D1.callbacks[type][i] :
                                 i \in 1..Len(D1.callbacks[type])}])

\* Mutant: unlock( type, cb ) does nothing.
EventDispatcher_unlock_Keeps(D, type, cb) == Returned(D)

EventDispatcher_unlock(D, type, cb) ==
    IF type \notin DOMAIN D.lockedEvents
    THEN Returned(D)
    ELSE IF cb # Null
         THEN IF D.lockedEvents[type] \ {cb} = {}
              THEN Returned([D EXCEPT !.lockedEvents = Drop(@, type)])
              ELSE Returned([D EXCEPT !.lockedEvents[type] = @ \ {cb}])
         ELSE Returned([D EXCEPT !.lockedEvents = Drop(@, type)])

EventDispatcher_cancel(D, type, cb) ==
    IF cb # Null
    THEN LET D1 == [D EXCEPT
                      !.eventTarget[type] = SetDelete(@, Direct(cb)),
                      !.callbacks =
                          IF type \in DOMAIN @
                          THEN [@ EXCEPT ![type] = SetDelete(@, cb)]
                          ELSE @]
         IN IF cb \in DOMAIN D1.onceCallbacks
            THEN Returned(
                   [D1 EXCEPT
                      !.eventTarget[type] = SetDelete(@, D1.onceCallbacks[cb]),
                      !.onceCallbacks = Drop(@, cb)])
            ELSE Returned(D1)
    ELSE IF type \in DOMAIN D.callbacks
         THEN Returned(
                [D EXCEPT
                   !.eventTarget[type] =
                       SelectSeq(@, LAMBDA l :
                           l.wrapper \/ ~SetHas(D.callbacks[type], l.cb)),
                   !.callbacks = Drop(@, type)])
         ELSE Returned(D)

EventDispatcher_has(D, type, cb) ==
    IF cb # Null
    THEN type \in DOMAIN D.callbacks /\ SetHas(D.callbacks[type], cb)
    ELSE type \in DOMAIN D.callbacks /\ Len(D.callbacks[type]) > 0

EventDispatcher_isLocked(D, type, cb) ==
    IF type \notin DOMAIN D.lockedEvents
    THEN FALSE
    ELSE IF cb # Null
         THEN cb \in D.lockedEvents[type]
         ELSE D.lockedEvents[type] # {}

\* getDispatchCount(): with a callback, the count of the type if the
\* callback is in _callbacks for the type, else 0; without, the count of
\* the type (`|| 0` for a type never dispatched).
EventDispatcher_getDispatchCount(D, type, cb) ==
    IF cb # Null
    THEN IF /\ type \in DOMAIN D.eventCounts
            /\ type \in DOMAIN D.callbacks
            /\ SetHas(D.callbacks[type], cb)
         THEN D.eventCounts[type]
         ELSE 0
    ELSE IF type \in DOMAIN D.eventCounts THEN D.eventCounts[type] ELSE 0

\* The state after `new EventDispatcher()`.
InitDispatcher ==
    /\ eventTarget = [type \in Types |-> <<>>]
    /\ lockedEvents = <<>>
    /\ onceCallbacks = <<>>
    /\ callbacks = <<>>
    /\ eventCounts = <<>>
    /\ dispatched = [op |-> "new", type |-> "e1", cb |-> Null,
                     invoked |-> <<>>, threw |-> FALSE]
    /\ events = 0
    /\ execCalls = [type \in Types |-> 0]
    /\ invocations = [type \in Types |-> [cb \in Callbacks |-> 0]]

\* ------------------------------------------------------ Logger
LogLevel == [DEBUG |-> 0, INFO |-> 1, WARN |-> 2, ERROR |-> 3]

LogLevels == {LogLevel.DEBUG, LogLevel.INFO, LogLevel.WARN, LogLevel.ERROR}

\* A LogStyle; "" is a property left out.
LogStyle(color, backgroundColor, padding, borderRadius) ==
    [color |-> color, backgroundColor |-> backgroundColor,
     padding |-> padding, borderRadius |-> borderRadius]

\* The styles main.ts gives, styles for one level only, and none.
MainStyles ==
    [l \in LogLevels |->
       CASE l = LogLevel.DEBUG -> LogStyle("white", "black", "2px 8px", "2px")
         [] l = LogLevel.INFO -> LogStyle("black", "lightblue", "2px 8px", "2px")
         [] l = LogLevel.WARN -> LogStyle("black", "yellow", "2px 8px", "2px")
         [] OTHER -> LogStyle("black", "red", "2px 8px", "2px")]

PartialStyles == [l \in {LogLevel.WARN} |-> LogStyle("orange", "", "", "")]

NoStyles == <<>>

StyleChoices == {NoStyles, PartialStyles, MainStyles}

\* The logger object together with the console.
TheLogger == [level |-> level, styles |-> styles, console |-> console]

\* `x || d`
Or(x, d) == IF x = "" THEN d ELSE x

\* No second argument to console.log.
NoCss == LogStyle("", "", "", "")

\* logWithStyle(): message is the sequence of the pieces of the template
\* literal; a console.log call is its first argument and the css.
logWithStyle(L, lvl, message) ==
    IF lvl \in DOMAIN L.styles
    THEN LET style == L.styles[lvl]
         IN [L EXCEPT !.console =
               Append(@, [text |-> <<"%c">> \o message,
                          css |-> LogStyle(Or(style.color, "inherit"),
                                           Or(style.backgroundColor, "inherit"),
                                           Or(style.padding, "0"),
                                           Or(style.borderRadius, "0"))])]
    ELSE [L EXCEPT !.console = Append(@, [text |-> message, css |-> NoCss])]

\* Mutant: `<` for `<=`.
debug_Strict(L, args) ==
    IF L.level < LogLevel.DEBUG
    THEN logWithStyle(L, LogLevel.DEBUG, <<"DEBUG: ", args[1]>>)
    ELSE L

\* The four methods: args are the arguments of the call, of which the
\* parameter `message` is the first.
debug(L, args) ==
    IF L.level <= LogLevel.DEBUG
    THEN logWithStyle(L, LogLevel.DEBUG, <<"DEBUG: ", args[1]>>)
    ELSE L

info(L, args) ==
    IF L.level <= LogLevel.INFO
    THEN logWithStyle(L, LogLevel.INFO, <<"INFO: ", args[1]>>)
    ELSE L

warn(L, args) ==
    IF L.level <= LogLevel.WARN
    THEN logWithStyle(L, LogLevel.WARN, <<"WARN: ", args[1]>>)
    ELSE L

error(L, args) ==
    IF L.level <= LogLevel.ERROR
    THEN logWithStyle(L, LogLevel.ERROR, <<"ERROR: ", args[1]>>)
    ELSE L

Methods == {"debug", "info", "warn", "error"}

Logged(L, method, args) ==
    CASE method = "debug" -> debug(L, args)
      [] method = "info" -> info(L, args)
      [] method = "warn" -> warn(L, args)
      [] OTHER -> error(L, args)

\* The state after `new Logger( lvl, st )`.
InitLogger(lvl, st) ==
    /\ level = lvl
    /\ styles = st
    /\ console = <<>>
    /\ logCalls = <<>>

\* ------------------------------------------------------ the state machine
\* The record of a call of a public method from outside a task.
Step(op, cb, d) == [op |-> op, task |-> cb, fired |-> FALSE, delta |-> 0,
                    elapsed |-> 0, duration |-> d, body |-> NoBody,
                    resumed |-> FALSE]

InitScheduler ==
    /\ intervals = <<>>
    /\ timeouts = <<>>
    /\ lockedCallbacks = {}
    /\ running = FALSE
    /\ now = 0
    /\ rafQueue = <<>>
    /\ rafFrame = <<>>
    /\ last = Step("new", "A", 0)
    /\ timeoutInvoked = [t \in Tasks |-> 0]
    /\ tickedAt = [t \in Tasks |-> 0]
    /\ held = {}
    /\ stopped = {}
    /\ calls = 0

\* The state after the constructions main.ts makes.
Init ==
    /\ InitScheduler
    /\ InitDispatcher
    /\ InitLogger(LogLevel.DEBUG, MainStyles)

Store(S) ==
    /\ intervals' = S.intervals
    /\ timeouts' = S.timeouts
    /\ lockedCallbacks' = S.lockedCallbacks
    /\ running' = S.running
    /\ rafQueue' = S.rafQueue

\* Code outside the scheduler's callbacks runs between two frames.
Idle == rafFrame = <<>>

Called == calls < MaxCalls /\ calls' = calls + 1

Interval(cb, d) ==
    /\ Idle
    /\ Called
    /\ Store(interval(Sched, cb, d))
    /\ last' = Step("interval", cb, d)
    /\ UNCHANGED <<now, rafFrame, timeoutInvoked, tickedAt, held, stopped>>
    /\ UNCHANGED <<dispatcher, logger>>

Timeout(cb, d) ==
    /\ Idle
    /\ Called
    /\ Store(timeout(Sched, cb, d))
    /\ last' = Step("timeout", cb, d)
    /\ UNCHANGED <<now, rafFrame, timeoutInvoked, tickedAt, held, stopped>>
    /\ UNCHANGED <<dispatcher, logger>>

Cancel(cb) ==
    /\ Idle
    /\ Called
    /\ Store(cancel(Sched, cb))
    /\ last' = Step("cancel", cb, 0)
    /\ UNCHANGED <<now, rafFrame, timeoutInvoked, tickedAt, held, stopped>>
    /\ UNCHANGED <<dispatcher, logger>>

Lock(cb) ==
    /\ Idle
    /\ Called
    /\ Store(lock(Sched, cb))
    /\ last' = Step("lock", cb, 0)
    /\ UNCHANGED <<now, rafFrame, timeoutInvoked, tickedAt, held, stopped>>
    /\ UNCHANGED <<dispatcher, logger>>

Unlock(cb) ==
    /\ Idle
    /\ Called
    /\ Store(unlock(Sched, cb))
    /\ last' = Step("unlock", cb, 0)
    /\ UNCHANGED <<now, rafFrame, timeoutInvoked, tickedAt, held, stopped>>
    /\ UNCHANGED <<dispatcher, logger>>

\* The sequences of n clock values read from t on, each later than the one
\* before by one of ExecSkews.
RECURSIVE ReadsFrom(_, _)
ReadsFrom(t, n) ==
    IF n = 0 THEN {<<>>}
    ELSE IF n = 1 THEN {<<t>>}
    ELSE {<<t>> \o r : r \in UNION {ReadsFrom(t + k, n - 1) :
                                      k \in {k \in ExecSkews : t + k <= MaxNow}}}

Exec ==
    /\ Idle
    /\ Called
    /\ \E reads \in ReadsFrom(now, Len(intervals) + Len(timeouts)) :
         /\ Store(exec(Sched, reads))
         /\ now' = IF running \/ reads = <<>> THEN now ELSE reads[Len(reads)]
         /\ tickedAt' = IF running THEN tickedAt
                        ELSE [t \in DOMAIN tickedAt |->
                                IF MapHas(intervals, t)
                                THEN MapGet(intervals', t).lastTime
                                ELSE tickedAt[t]]
    /\ last' = Step("exec", "A", 0)
    /\ UNCHANGED <<rafFrame, timeoutInvoked, held, stopped>>
    /\ UNCHANGED <<dispatcher, logger>>

\* Time passes.
Advance ==
    /\ \E k \in ClockSteps : now + k <= MaxNow /\ now' = now + k
    /\ UNCHANGED <<intervals, timeouts, lockedCallbacks, running, rafQueue,
                   rafFrame, last, timeoutInvoked, tickedAt, held, stopped,
                   calls>>
    /\ UNCHANGED <<dispatcher, logger>>

\* The host starts a frame: the callbacks requested so far are its list.
BeginFrame ==
    /\ Idle
    /\ rafQueue # <<>>
    /\ rafFrame' = rafQueue
    /\ rafQueue' = <<>>
    /\ UNCHANGED <<intervals, timeouts, lockedCallbacks, running, now, last,
                   timeoutInvoked, tickedAt, held, stopped, calls>>
    /\ UNCHANGED <<dispatcher, logger>>

\* The registry a chain of kind k reads.
Registry(k) == IF k = "interval" THEN intervals ELSE timeouts

\* The tasks that a callback of the running frame has cancelled or locked
\* and none has unlocked or registered since, after the call a task body
\* makes; the set is used while the frame runs.
Stops(tasks, body) ==
    CASE body.op \in {"cancel", "lock"} -> tasks \cup {body.task}
      [] body.op \in {"unlock", "interval", "timeout"} -> tasks \ {body.task}
      [] OTHER -> tasks

\* The host called the tick of chain c, with result r.
Ticked(c, r) ==
    /\ Store(r.S)
    /\ rafFrame' = Tail(rafFrame)
    /\ last' = [op |-> IF c.kind = "interval" THEN "tickInterval"
                       ELSE "tickTimeout",
                task |-> c.task, fired |-> r.fired, delta |-> r.delta,
                elapsed |-> r.elapsed, duration |-> r.duration,
                body |-> r.body, resumed |-> r.fired /\ c \in held]
    /\ held' = IF ~r.fired /\ MapHas(Registry(c.kind), c.task)
                  /\ c.task \in lockedCallbacks
               THEN held \cup {c}
               ELSE held \ {c}
    /\ stopped' = IF Tail(rafFrame) = <<>>
                  THEN {}
                  ELSE Stops(stopped, r.body)
    /\ calls' = IF r.body.op = "none" THEN calls ELSE calls + 1
    /\ UNCHANGED now

\* The bodies a task may have, given the calls left.
BodiesLeft == IF calls < MaxCalls THEN Bodies ELSE {NoBody}

\* The host calls the next callback of the frame, an interval tick.
TickInterval ==
    /\ rafFrame # <<>>
    /\ Head(rafFrame).kind = "interval"
    /\ \E body \in BodiesLeft :
         Ticked(Head(rafFrame),
                tickInterval(Sched, Head(rafFrame).task, now, body))
    /\ tickedAt' = [tickedAt EXCEPT ![Head(rafFrame).task] = now]
    /\ UNCHANGED timeoutInvoked
    /\ UNCHANGED <<dispatcher, logger>>

\* The host calls the next callback of the frame, a timeout tick.
TickTimeout ==
    /\ rafFrame # <<>>
    /\ Head(rafFrame).kind = "timeout"
    /\ \E body \in BodiesLeft :
         LET cb == Head(rafFrame).task
             r == tickTimeout(Sched, cb, now, body)
         IN /\ Ticked(Head(rafFrame), r)
            /\ timeoutInvoked' =
                 IF r.fired
                 THEN [timeoutInvoked EXCEPT ![cb] = IF @ < 2 THEN @ + 1 ELSE 2]
                 ELSE timeoutInvoked
    /\ UNCHANGED tickedAt
    /\ UNCHANGED <<dispatcher, logger>>

Next ==
    \/ \E cb \in Tasks, d \in Durations : Interval(cb, d)
    \/ \E cb \in Tasks, d \in Durations : Timeout(cb, d)
    \/ \E cb \in Tasks : Cancel(cb)
    \/ \E cb \in Tasks : Lock(cb)
    \/ \E cb \in Tasks : Unlock(cb)
    \/ Exec
    \/ Advance
    \/ BeginFrame
    \/ TickInterval
    \/ TickTimeout

Spec == Init /\ [][Next]_vars

\* The scheduler called with any number for a duration: the parameter is
\* typed `number` and the durations below zero are among its values.
NegativeDurations == {-1000}

NextAnyDuration ==
    \/ \E cb \in Tasks, d \in Durations \cup NegativeDurations : Interval(cb, d)
    \/ \E cb \in Tasks, d \in Durations \cup NegativeDurations : Timeout(cb, d)
    \/ \E cb \in Tasks : Cancel(cb)
    \/ \E cb \in Tasks : Lock(cb)
    \/ \E cb \in Tasks : Unlock(cb)
    \/ Exec
    \/ Advance
    \/ BeginFrame
    \/ TickInterval
    \/ TickTimeout

SpecAnyDuration == Init /\ [][NextAnyDuration]_vars

\* ------------------------------------------------------ the dispatcher's machine
\* A call of a method of the dispatcher, with what it returned.
Dispatched(op, type, cb, r) ==
    /\ events < MaxEvents
    /\ events' = events + 1
    /\ eventTarget' = r.D.eventTarget
    /\ lockedEvents' = r.D.lockedEvents
    /\ onceCallbacks' = r.D.onceCallbacks
    /\ callbacks' = r.D.callbacks
    /\ eventCounts' = r.D.eventCounts
    /\ dispatched' = [op |-> op, type |-> type, cb |-> cb,
                      invoked |-> r.invoked, threw |-> r.threw]
    /\ execCalls' = IF op = "exec" THEN [execCalls EXCEPT ![type] = @ + 1]
                    ELSE execCalls
    /\ invocations' =
         [invocations EXCEPT ![type] =
            [cb2 \in Callbacks |->
               @[cb2] + Cardinality({i \in 1..Len(r.invoked) :
                                       r.invoked[i].cb = cb2})]]
    /\ UNCHANGED <<scheduler, logger>>

On(type, cb) == Dispatched("on", type, cb, EventDispatcher_on(Dispatcher, type, cb))

\* The onceWrapper made is a new closure: it gets the least number no
\* listening wrapper of the callback for the type has.
Once(type, cb) ==
    \E n \in 1..MaxOnce :
       /\ ~SetHas(eventTarget[type], Wrapper(type, cb, n))
       /\ \A k \in 1..(n - 1) : SetHas(eventTarget[type], Wrapper(type, cb, k))
       /\ Dispatched("once", type, cb,
                     EventDispatcher_once(Dispatcher, type, cb, n))

EventExec(type) ==
    Dispatched("exec", type, Null, EventDispatcher_exec(Dispatcher, type))

EventLock(type, cb) ==
    Dispatched("lock", type, cb, EventDispatcher_lock(Dispatcher, type, cb))

EventUnlock(type, cb) ==
    Dispatched("unlock", type, cb, EventDispatcher_unlock(Dispatcher, type, cb))

EventCancel(type, cb) ==
    Dispatched("cancel", type, cb, EventDispatcher_cancel(Dispatcher, type, cb))

NextDispatcher ==
    \/ \E type \in Types, cb \in Callbacks : On(type, cb)
    \/ \E type \in Types, cb \in Callbacks : Once(type, cb)
    \/ \E type \in Types : EventExec(type)
    \/ \E type \in Types, cb \in Callbacks \cup {Null} : EventLock(type, cb)
    \/ \E type \in Types, cb \in Callbacks \cup {Null} : EventUnlock(type, cb)
    \/ \E type \in Types, cb \in Callbacks \cup {Null} : EventCancel(type, cb)

SpecDispatcher == Init /\ [][NextDispatcher]_vars

\* ------------------------------------------------------ the logger's machine
\* The argument lists of a call.
ArgLists == UNION {[1..n -> Messages] : n \in ArgCounts}

Log(method, args) ==
    /\ Len(logCalls) < MaxLogs
    /\ logCalls' = Append(logCalls, [method |-> method, args |-> args])
    /\ LET L == Logged(TheLogger, method, args)
       IN /\ level' = L.level
          /\ styles' = L.styles
          /\ console' = L.console
    /\ UNCHANGED <<scheduler, dispatcher>>

NextLogger == \E method \in Methods, args \in ArgLists : Log(method, args)

\* A logger of any level and styles.
InitLoggers ==
    /\ InitScheduler
    /\ InitDispatcher
    /\ \E lvl \in LogLevels, st \in StyleChoices : InitLogger(lvl, st)

SpecLogger == InitLoggers /\ [][NextLogger]_vars

\* ------------------------------------------------------ class App
\* The four callbacks App.setup() registers: App.update and the three
\* arrow functions.
AppTasks == {"update", "lockUpdate", "unlockUpdate", "cancelUpdate"}

LockAfter == 5000

UnlockAfter == 10000

CancelAfter == 15000

\* The clock of the App runs to AppMaxNow, by AppClockSteps between frames.
AppMaxNow == 20000

AppClockSteps == {2500, 5000}

\* What each callback does to the scheduler; update only logs.
AppBody(cb) ==
    CASE cb = "lockUpdate" -> [op |-> "lock", task |-> "update", duration |-> 0]
      [] cb = "unlockUpdate" -> [op |-> "unlock", task |-> "update", duration |-> 0]
      [] cb = "cancelUpdate" -> [op |-> "cancel", task |-> "update", duration |-> 0]
      [] OTHER -> NoBody

\* App.setup(), on the scheduler the constructor made.
setup(S) ==
    timeout(
        timeout(
            timeout(interval(S, "update", 0), "lockUpdate", LockAfter),
            "unlockUpdate", UnlockAfter),
        "cancelUpdate", CancelAfter)

\* The state after `new App()`.
InitApp ==
    /\ LET S == setup([intervals |-> <<>>, timeouts |-> <<>>,
                       lockedCallbacks |-> {}, running |-> FALSE,
                       rafQueue |-> <<>>])
       IN /\ intervals = S.intervals
          /\ timeouts = S.timeouts
          /\ lockedCallbacks = S.lockedCallbacks
          /\ running = S.running
          /\ rafQueue = S.rafQueue
    /\ now = 0
    /\ rafFrame = <<>>
    /\ last = Step("new", "update", 0)
    /\ timeoutInvoked = [t \in AppTasks |-> 0]
    /\ tickedAt = [t \in AppTasks |-> 0]
    /\ held = {}
    /\ stopped = {}
    /\ calls = 0
    /\ InitDispatcher
    /\ InitLogger(LogLevel.DEBUG, MainStyles)

\* app.run(), called once, right after the construction.
AppRun ==
    /\ ~running
    /\ Exec

\* Time passes between two frames; the callbacks of one frame are taken to
\* run at one clock value, their run time being short against the 5 s
\* between the deadlines.
AppAdvance ==
    /\ Idle
    /\ running
    /\ \E k \in AppClockSteps : now + k <= AppMaxNow /\ now' = now + k
    /\ UNCHANGED <<intervals, timeouts, lockedCallbacks, running, rafQueue,
                   rafFrame, last, timeoutInvoked, tickedAt, held, stopped,
                   calls>>
    /\ UNCHANGED <<dispatcher, logger>>

\* App.update: `console.log( "updating...", elapsed )`, the two arguments
\* of the call being the text of the entry.
update(con, elapsed) ==
    Append(con, [text |-> <<"updating...", elapsed>>, css |-> NoCss])

\* The number of calls update has logged with the given elapsed.
UpdatesAt(elapsed) ==
    Cardinality({i \in 1..Len(console) :
                   console[i].text = <<"updating...", elapsed>>})

\* The host delivers at most MaxAppFrames frames in which update logs at
\* one clock value.
MaxAppFrames == 2

\* The host starts a frame of the App.
AppBeginFrame ==
    /\ BeginFrame
    /\ MapHas(intervals, "update")
       => UpdatesAt((now - MapGet(intervals, "update").startTime)
                    \div MsPerSecond) < MaxAppFrames

\* The interval of the App is update, the only callback that logs; the
\* console.clear() of the cancel timeout is no console.log call.
AppTickInterval ==
    /\ rafFrame # <<>>
    /\ Head(rafFrame).kind = "interval"
    /\ LET cb == Head(rafFrame).task
           r == tickInterval(Sched, cb, now, AppBody(cb))
       IN /\ Ticked(Head(rafFrame), r)
          /\ console' = IF r.fired /\ cb = "update"
                        THEN update(console, r.elapsed)
                        ELSE console
    /\ tickedAt' = [tickedAt EXCEPT ![Head(rafFrame).task] = now]
    /\ UNCHANGED timeoutInvoked
    /\ UNCHANGED <<dispatcher, level, styles, logCalls>>

AppTickTimeout ==
    /\ rafFrame # <<>>
    /\ Head(rafFrame).kind = "timeout"
    /\ LET cb == Head(rafFrame).task
           r == tickTimeout(Sched, cb, now, AppBody(cb))
       IN /\ Ticked(Head(rafFrame), r)
          /\ timeoutInvoked' =
               IF r.fired
               THEN [timeoutInvoked EXCEPT ![cb] = IF @ < 2 THEN @ + 1 ELSE 2]
               ELSE timeoutInvoked
    /\ UNCHANGED tickedAt
    /\ UNCHANGED <<dispatcher, logger>>

NextApp ==
    \/ AppRun
    \/ AppAdvance
    \/ AppBeginFrame
    \/ AppTickInterval
    \/ AppTickTimeout

\* run() is called, the host delivers every frame it was asked for, and
\* time does not stand still from frame to frame for ever (the clock can
\* advance only between frames, so that its fairness is the strong one).
SpecApp ==
    /\ InitApp
    /\ [][NextApp]_vars
    /\ WF_vars(AppRun)
    /\ SF_vars(AppAdvance)
    /\ WF_vars(AppBeginFrame)
    /\ WF_vars(AppTickInterval)
    /\ WF_vars(AppTickTimeout)

\* ------------------------------------------------------ three tasks in one frame
\* Three callbacks registered before exec(), each as an interval or as a
\* timeout, whose bodies cancel, lock or unlock one another.
FrameTasks == {"A", "B", "C"}

FrameKinds == {"interval", "timeout"}

FrameDurations == {0, 1000}

FrameBodies ==
    {NoBody}
    \cup [op : {"cancel", "lock", "unlock"}, task : FrameTasks, duration : {0}]

\* One registration: interval( cb, d ) or timeout( cb, d ).
register(S, k, cb, d) ==
    IF k = "interval" THEN interval(S, cb, d) ELSE timeout(S, cb, d)

\* The state after the construction and the three registrations.
InitFrame ==
    /\ \E kinds \in [FrameTasks -> FrameKinds], ds \in [FrameTasks -> FrameDurations] :
         LET S0 == [intervals |-> <<>>, timeouts |-> <<>>,
                    lockedCallbacks |-> {}, running |-> FALSE,
                    rafQueue |-> <<>>]
             S == register(
                      register(
                          register(S0, kinds["A"], "A", ds["A"]),
                          kinds["B"], "B", ds["B"]),
                      kinds["C"], "C", ds["C"])
         IN /\ intervals = S.intervals
            /\ timeouts = S.timeouts
            /\ lockedCallbacks = S.lockedCallbacks
            /\ running = S.running
            /\ rafQueue = S.rafQueue
    /\ now = 0
    /\ rafFrame = <<>>
    /\ last = Step("new", "A", 0)
    /\ timeoutInvoked = [t \in FrameTasks |-> 0]
    /\ tickedAt = [t \in FrameTasks |-> 0]
    /\ held = {}
    /\ stopped = {}
    /\ calls = 0
    /\ InitDispatcher
    /\ InitLogger(LogLevel.DEBUG, MainStyles)

\* The calls made in a run of the three tasks, exec() included.
MaxFrameCalls == 3

FrameBodiesLeft == IF calls < MaxFrameCalls THEN FrameBodies ELSE {NoBody}

FrameTickInterval ==
    /\ rafFrame # <<>>
    /\ Head(rafFrame).kind = "interval"
    /\ \E body \in FrameBodiesLeft :
         Ticked(Head(rafFrame),
                tickInterval(Sched, Head(rafFrame).task, now, body))
    /\ tickedAt' = [tickedAt EXCEPT ![Head(rafFrame).task] = now]
    /\ UNCHANGED timeoutInvoked
    /\ UNCHANGED <<dispatcher, logger>>

FrameTickTimeout ==
    /\ rafFrame # <<>>
    /\ Head(rafFrame).kind = "timeout"
    /\ \E body \in FrameBodiesLeft :
         LET cb == Head(rafFrame).task
             r == tickTimeout(Sched, cb, now, body)
         IN /\ Ticked(Head(rafFrame), r)
            /\ timeoutInvoked' =
                 IF r.fired
                 THEN [timeoutInvoked EXCEPT ![cb] = IF @ < 2 THEN @ + 1 ELSE 2]
                 ELSE timeoutInvoked
    /\ UNCHANGED tickedAt
    /\ UNCHANGED <<dispatcher, logger>>

NextFrame ==
    \/ AppRun
    \/ Advance
    \/ BeginFrame
    \/ FrameTickInterval
    \/ FrameTickTimeout

SpecFrame == InitFrame /\ [][NextFrame]_vars

\* ------------------------------------------------------ a fair host
\* Two callbacks registered before exec(), each as an interval or as a
\* timeout, under a host that delivers every frame it was asked for and a
\* clock that goes on; cancel, lock and unlock are called by the tasks, and
\* unlock from outside as well.
FairDurations == {0, 5000}

FairBodies ==
    {NoBody}
    \cup [op : {"cancel", "lock", "unlock"}, task : Tasks, duration : {0}]

\* The state after the construction and the two registrations.
InitFair ==
    /\ \E kinds \in [Tasks -> FrameKinds], ds \in [Tasks -> FairDurations] :
         LET S0 == [intervals |-> <<>>, timeouts |-> <<>>,
                    lockedCallbacks |-> {}, running |-> FALSE,
                    rafQueue |-> <<>>]
             S == register(register(S0, kinds["A"], "A", ds["A"]),
                           kinds["B"], "B", ds["B"])
         IN /\ intervals = S.intervals
            /\ timeouts = S.timeouts
            /\ lockedCallbacks = S.lockedCallbacks
            /\ running = S.running
            /\ rafQueue = S.rafQueue
    /\ now = 0
    /\ rafFrame = <<>>
    /\ last = Step("new", "A", 0)
    /\ timeoutInvoked = [t \in Tasks |-> 0]
    /\ tickedAt = [t \in Tasks |-> 0]
    /\ held = {}
    /\ stopped = {}
    /\ calls = 0
    /\ InitDispatcher
    /\ InitLogger(LogLevel.DEBUG, MainStyles)

FairBodiesLeft == IF calls < MaxCalls THEN FairBodies ELSE {NoBody}

\* The clock runs to FairMaxNow, by FairClockSteps between two frames.
FairMaxNow == 10000

FairClockSteps == {5000}

FairAdvance ==
    /\ Idle
    /\ running
    /\ \E k \in FairClockSteps : now + k <= FairMaxNow /\ now' = now + k
    /\ UNCHANGED <<intervals, timeouts, lockedCallbacks, running, rafQueue,
                   rafFrame, last, timeoutInvoked, tickedAt, held, stopped,
                   calls>>
    /\ UNCHANGED <<dispatcher, logger>>

\* The calls from outside leave one call for exec().
Spare == running \/ calls + 1 < MaxCalls

FairTickInterval ==
    /\ rafFrame # <<>>
    /\ Head(rafFrame).kind = "interval"
    /\ \E body \in FairBodiesLeft :
         Ticked(Head(rafFrame),
                tickInterval(Sched, Head(rafFrame).task, now, body))
    /\ tickedAt' = [tickedAt EXCEPT ![Head(rafFrame).task] = now]
    /\ UNCHANGED timeoutInvoked
    /\ UNCHANGED <<dispatcher, logger>>

FairTickTimeout ==
    /\ rafFrame # <<>>
    /\ Head(rafFrame).kind = "timeout"
    /\ \E body \in FairBodiesLeft :
         LET cb == Head(rafFrame).task
             r == tickTimeout(Sched, cb, now, body)
         IN /\ Ticked(Head(rafFrame), r)
            /\ timeoutInvoked' =
                 IF r.fired
                 THEN [timeoutInvoked EXCEPT ![cb] = IF @ < 2 THEN @ + 1 ELSE 2]
                 ELSE timeoutInvoked
    /\ UNCHANGED tickedAt
    /\ UNCHANGED <<dispatcher, logger>>

NextFair ==
    \/ AppRun
    \/ FairAdvance
    \/ BeginFrame
    \/ FairTickInterval
    \/ FairTickTimeout
    \/ \E cb \in Tasks : Spare /\ Unlock(cb)

\* exec() is called, every requested frame is delivered and every callback
\* of a frame is called; the clock, which moves between frames only, is
\* not held back for ever. The calls of unlock from outside are under no
\* fairness.
SpecFair ==
    /\ InitFair
    /\ [][NextFair]_vars
    /\ WF_vars(AppRun)
    /\ SF_vars(FairAdvance)
    /\ WF_vars(BeginFrame)
    /\ WF_vars(FairTickInterval)
    /\ WF_vars(FairTickTimeout)

\* ------------------------------------------------------ vocabulary of the claims
Chains == [kind : {"interval", "timeout"}, task : Tasks]

IntervalChain(cb) == [kind |-> "interval", task |-> cb]

TimeoutChain(cb) == [kind |-> "timeout", task |-> cb]

\* The number of tick requests of chain c the host still has to deliver.
Pending(c) ==
    Cardinality({i \in 1..Len(rafFrame) : rafFrame[i] = c})
    + Cardinality({i \in 1..Len(rafQueue) : rafQueue[i] = c})

\* This step is the delivery of a tick of chain c.
TickOf(c) ==
    /\ rafFrame # <<>>
    /\ Head(rafFrame) = c
    /\ rafFrame' = Tail(rafFrame)

IsTick(r) == r.op \in {"tickInterval", "tickTimeout"}

\* ------------------------------------------------------ C1
\* C1: no task is invoked before exec() has been called and exec() invokes
\* none itself: while the scheduler is not running no tick request exists
\* and the step taken last invoked nothing; a task is invoked by a tick only.
C1_NoInvocationBeforeExec ==
    /\ ~running => (~last.fired /\ rafQueue = <<>> /\ rafFrame = <<>>)
    /\ last.fired => IsTick(last)

C1_Witness ==
    /\ running
    /\ IsTick(last)
    /\ last.fired
    /\ timeoutInvoked = [t \in Tasks |-> 0]
    /\ last.delta > 0

\* ------------------------------------------------------ C2
\* C2: every invocation of an interval task receives a delta that is at
\* least the duration of its entry: it never fires early.
C2_IntervalNeverEarly ==
    (last.op = "tickInterval" /\ last.fired) => last.delta >= last.duration

C2_Witness ==
    /\ last.op = "tickInterval"
    /\ last.fired
    /\ last.resumed
    /\ last.duration = 1000
    /\ last.delta >= 1000

\* ------------------------------------------------------ C3
\* C3: a tick of an interval task that is registered and not locked invokes
\* it whenever its duration is 0, or now - lastTime >= duration, or the clock
\* advanced by at least the duration since the task's previous tick.
C3_IntervalFiresWhenDue ==
    [][\A cb \in Tasks :
         (/\ TickOf(IntervalChain(cb))
          /\ MapHas(intervals, cb)
          /\ cb \notin lockedCallbacks
          /\ LET task == MapGet(intervals, cb)
             IN \/ task.duration = 0
                \/ now - task.lastTime >= task.duration
                \/ now - tickedAt[cb] >= task.duration)
         => (last'.op = "tickInterval" /\ last'.task = cb /\ last'.fired)]_vars

\* interval(t, 0) invoked on a tick although the clock did not advance since
\* its last invocation.
C3_Witness ==
    /\ last.op = "tickInterval"
    /\ last.fired
    /\ last.duration = 0
    /\ last.delta = 0
    /\ now > 0

\* ------------------------------------------------------ C4
\* C4: a tick of a task that is in the locked set does not invoke it,
\* interval or timeout, whatever the clock.
C4_LockedNeverInvoked ==
    [][\A c \in Chains :
         (TickOf(c) /\ c.task \in lockedCallbacks) => ~last'.fired]_vars

\* A timeout past its deadline whose tick found it locked and did not
\* invoke it.
C4_Witness ==
    /\ last.op = "tickTimeout"
    /\ ~last.fired
    /\ TimeoutChain(last.task) \in held
    /\ MapHas(timeouts, last.task)
    /\ LET task == MapGet(timeouts, last.task)
       IN task.duration > 0 /\ now - task.startTime >= task.duration

\* ------------------------------------------------------ C5
\* The condition under which the tick of chain c invokes its task, read
\* off the entry and the clock.
Due(c) ==
    IF c.kind = "interval"
    THEN LET task == MapGet(intervals, c.task)
         IN task.duration = 0 \/ now - task.lastTime >= task.duration
    ELSE LET task == MapGet(timeouts, c.task)
         IN now - task.startTime >= task.duration

\* C5: the drive chain survives the locked period: a chain whose latest
\* tick found its task locked has exactly one tick request pending, and
\* its next tick that finds the task registered, unlocked and due invokes
\* it, with no registration and no exec() in between needed.
C5_UnlockResumes ==
    [][/\ \A c \in Chains : c \in held' => Pending(c)' = 1
       /\ \A c \in Chains :
            (/\ TickOf(c)
             /\ c \in held
             /\ MapHas(Registry(c.kind), c.task)
             /\ c.task \notin lockedCallbacks
             /\ Due(c))
            => (last'.fired /\ last'.task = c.task /\ last'.resumed)]_vars

\* A timeout invoked by the first tick after unlock, having been skipped
\* while locked.
C5_Witness ==
    /\ last.op = "tickTimeout"
    /\ last.fired
    /\ last.resumed
    /\ last.task \notin lockedCallbacks

\* ------------------------------------------------------ C6
\* C6: a timeout task fires exactly once: a tick of a registered timeout
\* invokes it if and only if it is unlocked and now - startTime >= duration,
\* and no task is invoked by timeout ticks more than once.
C6_TimeoutFiresOnce ==
    [][/\ \A cb \in Tasks : timeoutInvoked'[cb] <= 1
       /\ \A cb \in Tasks :
            (TickOf(TimeoutChain(cb)) /\ MapHas(timeouts, cb))
            => (last'.fired <=>
                  (/\ cb \notin lockedCallbacks
                   /\ now - MapGet(timeouts, cb).startTime
                        >= MapGet(timeouts, cb).duration))]_vars

\* A timeout of 2000 ms invoked by the tick 2000 ms after exec(), once.
C6_Witness ==
    /\ last.op = "tickTimeout"
    /\ last.fired
    /\ last.duration = 2000
    /\ last.delta = 2000
    /\ timeoutInvoked[last.task] = 1

\* ------------------------------------------------------ C7
\* C7 as stated: immediately after a timeout task fires, has(t) is false.
C7_HasFalseAfterFire ==
    (last.op = "tickTimeout" /\ last.fired) => ~has(Sched, last.task)

\* C7 amended: the tick that invokes a timeout task finds has(t) true and
\* leaves the task absent from the timeout registry, with no tick request
\* of its chain pending; has(t) is then false unless the task is in the
\* interval registry.
C7_TimeoutRemovedOnFire ==
    [][\A cb \in Tasks :
         (TickOf(TimeoutChain(cb)) /\ last'.fired)
         => /\ has(Sched, cb)
            /\ ~MapHas(timeouts', cb)
            /\ Pending(TimeoutChain(cb))' = 0
            /\ (has(Sched, cb))' = MapHas(intervals', cb)]_vars

C7_Witness ==
    /\ last.op = "tickTimeout"
    /\ last.fired
    /\ ~has(Sched, last.task)
    /\ Len(timeouts) > 0

\* ------------------------------------------------------ C8
\* C8: after cancel(t), called from outside or by a task, has(t) is false;
\* a tick that finds its task absent from its registry invokes nothing,
\* changes nothing and requests no further frame.
C8_CancelStopsTask ==
    [][/\ \A cb \in Tasks :
            (\/ last'.op = "cancel" /\ last'.task = cb
             \/ last'.fired /\ last'.body.op = "cancel" /\ last'.body.task = cb)
            => (~has(Sched, cb))'
       /\ \A c \in Chains :
            (TickOf(c) /\ ~MapHas(Registry(c.kind), c.task))
            => /\ ~last'.fired
               /\ rafQueue' = rafQueue
               /\ UNCHANGED <<intervals, timeouts, lockedCallbacks>>]_vars

\* cancel(t) mid-chain: the pending interval tick found t absent and did
\* not invoke it.
C8_Witness ==
    /\ last.op = "tickInterval"
    /\ ~last.fired
    /\ ~has(Sched, last.task)
    /\ Pending(IntervalChain(last.task)) = 0

\* ------------------------------------------------------ C9
\* C9: each registry holds at most one entry per task, the entry holds the
\* duration of the latest registration, and at most one tick request per
\* task and registry is pending.
C9_SingleEntrySingleChain ==
    /\ \A c \in Chains : Pending(c) <= 1
    /\ \A cb \in Tasks :
         /\ Cardinality({i \in 1..Len(intervals) : intervals[i].key = cb}) <= 1
         /\ Cardinality({i \in 1..Len(timeouts) : timeouts[i].key = cb}) <= 1
    /\ last.op = "interval"
         => MapGet(intervals, last.task).duration = last.duration
    /\ last.op = "timeout"
         => MapGet(timeouts, last.task).duration = last.duration

\* interval(t, d1), exec(), interval(t, 2000): one entry, one chain.
C9_Witness ==
    /\ calls = 3
    /\ running
    /\ last.op = "interval"
    /\ last.duration = 2000
    /\ Len(intervals) = 1
    /\ timeouts = <<>>
    /\ lockedCallbacks = {}
    /\ Pending(IntervalChain(last.task)) = 1

\* ------------------------------------------------------ C10
\* C10: missed periods are not replayed: the tick that invokes an interval
\* task sets the lastTime of the entry it read to the tick's now, whatever
\* the time elapsed, so that a further tick at the same clock value has
\* delta 0.
C10_NoCatchUp ==
    [][\A cb \in Tasks :
         (/\ TickOf(IntervalChain(cb))
          /\ last'.fired
          /\ ~Replaces(last'.body, "interval", cb))
         => /\ MapGet(intervals', cb).lastTime = now
            /\ MapGet(intervals', cb).startTime = MapGet(intervals, cb).startTime
            /\ last'.delta = now - MapGet(intervals, cb).lastTime]_vars

\* Duration 1000, one tick 2500 ms after exec(): invoked with delta 2500
\* and elapsed 2, lastTime is the tick's now.
C10_Witness ==
    /\ last.op = "tickInterval"
    /\ last.fired
    /\ last.duration = 1000
    /\ last.delta = 2500
    /\ last.elapsed = 2
    /\ MapHas(intervals, last.task)
    /\ MapGet(intervals, last.task).lastTime = now
    /\ now = 2500

\* ------------------------------------------------------ C11
\* C11: exec() is idempotent: a call of exec() on a running scheduler
\* changes no entry (no timestamp), requests no frame and reads no clock,
\* and the running flag, once set, stays set.
C11_ExecIdempotent ==
    [][/\ running => running'
       /\ (running /\ last'.op = "exec" /\ calls' = calls + 1)
          => UNCHANGED <<intervals, timeouts, lockedCallbacks, rafQueue,
                         rafFrame, now, tickedAt, held, timeoutInvoked>>]_vars

\* A second exec(), called after a timeout has fired and while an interval
\* stamped earlier than now is registered.
C11_Witness ==
    /\ last.op = "exec"
    /\ \E t \in Tasks : timeoutInvoked[t] = 1
    /\ \E i \in 1..Len(intervals) :
         intervals[i].lastTime < now /\ Pending(IntervalChain(intervals[i].key)) = 1

\* ------------------------------------------------------ C12
\* C12: interval(t, d) and timeout(t, d) with d < 0 are rejected and leave
\* the registries as they were: no entry of either registry has a negative
\* duration.
C12_NegativeDurationRejected ==
    /\ \A i \in 1..Len(intervals) : intervals[i].duration >= 0
    /\ \A j \in 1..Len(timeouts) : timeouts[j].duration >= 0

\* ------------------------------------------------------ C13
\* C13: cancel(t) removes t from the locked set, whether called from outside
\* or by a task, and a registration leaves the locked set as it is: a task
\* that was locked, cancelled and registered again is not locked.
C13_CancelUnlocks ==
    [][/\ \A cb \in Tasks :
            \/ last'.op = "cancel" /\ last'.task = cb /\ calls' = calls + 1
            \/ IsTick(last') /\ last'.body.op = "cancel" /\ last'.body.task = cb
            => ~isLocked(Sched, cb)'
       /\ \/ last'.op \in {"interval", "timeout"} /\ calls' = calls + 1
          \/ IsTick(last') /\ last'.body.op \in {"interval", "timeout"}
          => lockedCallbacks' = lockedCallbacks]_vars

\* The four calls were interval(A), lock(A), exec() and, after a tick that
\* found A locked, cancel(A).
C13_Witness ==
    /\ last.op = "cancel"
    /\ last.task = "A"
    /\ calls = 4
    /\ IntervalChain("A") \in held
    /\ ~isLocked(Sched, "A")

\* ------------------------------------------------------ C14
Unknown(cb) == ~has(Sched, cb) /\ ~isLocked(Sched, cb)

\* C14: cancel(t) and unlock(t) of a task in neither registry nor the locked
\* set change nothing of the scheduler and request no frame; lock(t) of an
\* unregistered task adds t to the locked set and changes nothing else.
C14_UnknownTaskNoOp ==
    [][\A cb \in Tasks :
         /\ (/\ last'.op \in {"cancel", "unlock"}
             /\ last'.task = cb
             /\ calls' = calls + 1
             /\ Unknown(cb))
            => UNCHANGED <<intervals, timeouts, lockedCallbacks, running,
                           rafQueue, rafFrame, now>>
         /\ (/\ last'.op = "lock"
             /\ last'.task = cb
             /\ calls' = calls + 1
             /\ ~has(Sched, cb))
            => /\ lockedCallbacks' = lockedCallbacks \cup {cb}
               /\ UNCHANGED <<intervals, timeouts, running, rafQueue,
                              rafFrame, now>>]_vars

\* With four calls in all, interval(A), lock(A) and exec() came before
\* cancel(B): B was never known to the scheduler.
C14_Witness ==
    /\ last.op = "cancel"
    /\ last.task = "B"
    /\ calls = 4
    /\ running
    /\ MapHas(intervals, "A")
    /\ isLocked(Sched, "A")
    /\ Pending(IntervalChain("A")) = 1

\* ------------------------------------------------------ C15
\* The entry of chain c, if there is one, carries the timestamps of its
\* registration.
Unstamped(c) ==
    MapHas(Registry(c.kind), c.task) =>
        LET e == MapGet(Registry(c.kind), c.task)
        IN /\ e.startTime = 0
           /\ c.kind = "interval" => e.lastTime = 0

\* C15: on a running scheduler a task with no tick request pending gets
\* none, whatever is called, exec() included: it is not invoked, and an
\* entry registered for it keeps the zero timestamps of its registration.
C15_LateRegistrationNeverArmed ==
    [][\A c \in Chains :
         (running /\ Pending(c) = 0)
         => (Pending(c) = 0 /\ Unstamped(c))']_vars

\* timeout(B, 0), exec(), B fired, then interval(A, d) and exec() again,
\* at a clock value other than 0: A is registered, unarmed and unstamped.
C15_Witness ==
    /\ last.op = "exec"
    /\ now > 0
    /\ timeoutInvoked["B"] = 1
    /\ has(Sched, "A")
    /\ MapHas(intervals, "A")
    /\ MapGet(intervals, "A").lastTime = 0
    /\ Pending(IntervalChain("A")) = 0

\* ------------------------------------------------------ C16
\* C16: when the callback of a timeout task t calls timeout(t, d') during
\* its own invocation, then after that tick t is in the timeout registry
\* with duration d' and has(t) is true.
C16_SelfRegistrationVisible ==
    (/\ last.op = "tickTimeout"
     /\ last.fired
     /\ last.body.op = "timeout"
     /\ last.body.task = last.task)
    => /\ has(Sched, last.task)
       /\ MapHas(timeouts, last.task)
       /\ MapGet(timeouts, last.task).duration = last.body.duration

\* ------------------------------------------------------ C17
\* C17: an interval task cb re-registered with interval(cb, d) while its
\* chain is live, and ticked next: its latest tick (or its stamping by
\* exec()) was at tickedAt[cb], before the re-registration, so that it is
\* invoked only if d ms have passed since tickedAt[cb], and the delta it
\* receives is at most the time since tickedAt[cb].
C17_ReRegistrationResetsTiming ==
    [][\A cb \in Tasks :
         (/\ TickOf(IntervalChain(cb))
          /\ running
          /\ last.op = "interval"
          /\ last.task = cb
          /\ last'.fired)
         => /\ now - tickedAt[cb] >= last.duration
            /\ last'.delta <= now - tickedAt[cb]]_vars

\* ------------------------------------------------------ C18
\* The timeout of the App with callback cb has fired.
Fired(cb) == timeoutInvoked[cb] >= 1

\* The ticks of update: invoked on each one before lockUpdate fired and on
\* each one between the fires of unlockUpdate and cancelUpdate, on no other.
UpdateByPhase ==
    TickOf(IntervalChain("update"))
    => (last'.fired <=>
          \/ ~Fired("lockUpdate")
          \/ Fired("unlockUpdate") /\ ~Fired("cancelUpdate"))

\* No timeout fires twice, and they fire in the order lock, unlock, cancel.
FiredInOrder ==
    /\ \A cb \in AppTasks : timeoutInvoked[cb] <= 1
    /\ Fired("unlockUpdate") => Fired("lockUpdate")
    /\ Fired("cancelUpdate") => Fired("unlockUpdate")

\* All three timeouts have fired and no tick request is pending.
AppQuiescent ==
    /\ \A cb \in AppTasks \ {"update"} : timeoutInvoked[cb] = 1
    /\ rafQueue = <<>>
    /\ rafFrame = <<>>
    /\ ~has(Sched, "update")

\* C18: in the App, update is invoked on every tick until the lock timeout
\* has fired, on none from then until the unlock timeout has fired, on
\* every tick from then until the cancel timeout has fired and never
\* afterwards; each timeout fires exactly once, in the order lock, unlock,
\* cancel, and in the end no tick request is pending, for good.
C18_AppScenario ==
    /\ [][UpdateByPhase]_vars
    /\ []FiredInOrder
    /\ <>[]AppQuiescent

\* The App at rest, update having been invoked by its last tick but one.
C18_Witness ==
    /\ AppQuiescent
    /\ last.op = "tickInterval"
    /\ last.task = "update"
    /\ ~last.fired
    /\ now >= CancelAfter

\* ------------------------------------------------------ C19
\* The callbacks registered with on() for the type, and those of them that
\* are not locked.
Registered(type) ==
    IF type \in DOMAIN callbacks
    THEN {callbacks[type][i] : i \in 1..Len(callbacks[type])}
    ELSE {}

Unlocked(type) ==
    {cb \in Registered(type) : ~EventDispatcher_isLocked(Dispatcher, type, cb)}

\* The number of calls of listener l in the exec() made last.
Invocations(l) ==
    Cardinality({i \in 1..Len(dispatched.invoked) : dispatched.invoked[i] = l})

\* C19: an exec(type) that returns has called each callback registered
\* with on() for the type and not locked exactly once, and no locked one and
\* none of another type, on either dispatch path; after lock(type, cb) the
\* callback is locked, after unlock(type, cb) it is not.
C19_ExecInvokesUnlocked ==
    /\ (dispatched.op = "exec" /\ ~dispatched.threw)
       => \A cb \in Callbacks :
            Invocations(Direct(cb)) =
                IF cb \in Unlocked(dispatched.type) THEN 1 ELSE 0
    /\ (dispatched.op = "lock" /\ dispatched.cb # Null)
       => EventDispatcher_isLocked(Dispatcher, dispatched.type, dispatched.cb)
    /\ (dispatched.op = "unlock" /\ dispatched.cb # Null)
       => ~EventDispatcher_isLocked(Dispatcher, dispatched.type, dispatched.cb)

\* on(e1, f), on(e1, g), lock(e1, g), exec(e1): f was called, g was not.
C19_Witness ==
    /\ dispatched.op = "exec"
    /\ dispatched.type = "e1"
    /\ Registered("e1") = {"f", "g"}
    /\ EventDispatcher_isLocked(Dispatcher, "e1", "g")
    /\ dispatched.invoked = <<Direct("f")>>

\* ------------------------------------------------------ C20
\* C20: a listener registered with once(type, cb) is called by the first
\* exec(type) after its registration and by no later one, whatever is
\* locked or registered for the type: after an exec(type) that returns, no
\* onceWrapper is listening for the type any more, and each one that was
\* has been called once.
C20_OnceFiresOnFirstExec ==
    (dispatched.op = "exec" /\ ~dispatched.threw)
    => /\ \A i \in 1..Len(eventTarget[dispatched.type]) :
            ~eventTarget[dispatched.type][i].wrapper
       /\ \A cb \in Callbacks, n \in 1..MaxOnce :
            Invocations(Wrapper(dispatched.type, cb, n)) <= 1

\* ------------------------------------------------------ C21
\* C21: getDispatchCount(type) is the number of exec(type) calls made so
\* far, and getDispatchCount(type, cb) is the number of times cb has been
\* called for the type.
C21_DispatchCounts ==
    \A type \in Types :
       /\ EventDispatcher_getDispatchCount(Dispatcher, type, Null)
          = execCalls[type]
       /\ \A cb \in Callbacks :
            EventDispatcher_getDispatchCount(Dispatcher, type, cb)
            = invocations[type][cb]

\* ------------------------------------------------------ C22
\* The level of a method, and its prefix.
MethodLevel(method) ==
    CASE method = "debug" -> LogLevel.DEBUG
      [] method = "info" -> LogLevel.INFO
      [] method = "warn" -> LogLevel.WARN
      [] OTHER -> LogLevel.ERROR

Prefix(method) ==
    CASE method = "debug" -> "DEBUG: "
      [] method = "info" -> "INFO: "
      [] method = "warn" -> "WARN: "
      [] OTHER -> "ERROR: "

\* The calls made so far of methods whose level is at least the logger's.
Enabled == SelectSeq(logCalls, LAMBDA c : MethodLevel(c.method) >= level)

\* The text of a console.log call as the console shows it: `%c` is the
\* directive that applies the css.
Shown(entry) ==
    IF entry.text[1] = "%c" THEN Tail(entry.text) ELSE entry.text

\* C22: the console holds, in the order of the calls, one output for each
\* call of a method whose level is at least the logger's and none for any
\* other call, each the message behind the prefix of its method; a call
\* leaves the level as it is.
C22_LoggerFiltersByLevel ==
    /\ [](/\ Len(console) = Len(Enabled)
          /\ \A i \in 1..Len(console) :
               i <= Len(Enabled) =>
                 Shown(console[i]) = <<Prefix(Enabled[i].method), Enabled[i].args[1]>>)
    /\ [][level' = level]_vars

\* A styled logger of level WARN after info(..) and warn(..): one output.
C22_Witness ==
    /\ level = LogLevel.WARN
    /\ styles = MainStyles
    /\ Len(logCalls) = 2
    /\ logCalls[1].method = "info"
    /\ logCalls[2].method = "warn"
    /\ Len(console) = 1
    /\ console[1].text = <<"%c", "WARN: ", logCalls[2].args[1]>>

\* ------------------------------------------------------ C23
\* C23: a call of a method whose level is at least the logger's outputs
\* every one of its arguments.
C23_LogsEveryArgument ==
    \A i \in 1..Len(Enabled) :
       \A k \in 1..Len(Enabled[i].args) :
          \E j \in 1..Len(console) :
             \E p \in 1..Len(console[j].text) :
                console[j].text[p] = Enabled[i].args[k]

\* ------------------------------------------------------ C24
\* This step is a call of lock or unlock, from outside or by a task.
LockingStep ==
    \/ last'.op \in {"lock", "unlock"} /\ calls' = calls + 1
    \/ /\ \E c \in Chains : TickOf(c)
       /\ IsTick(last')
       /\ last'.fired
       /\ last'.body.op \in {"lock", "unlock"}

\* C24: a lock does not move the deadline of a timeout: a call of lock or
\* unlock and a tick that finds the timeout locked leave its entry as it
\* was, the locked tick requests the next tick, and the first tick after
\* the locked ticks that finds the task registered, unlocked and past its
\* deadline invokes it with delta = now - startTime.
C24_LockKeepsDeadline ==
    [][\A cb \in Tasks :
         LET c == TimeoutChain(cb)
             locked == TickOf(c) /\ MapHas(timeouts, cb) /\ cb \in lockedCallbacks
         IN /\ (MapHas(timeouts, cb) /\ LockingStep /\ ~(TickOf(c) /\ last'.fired))
               => /\ MapHas(timeouts', cb)
                  /\ MapGet(timeouts', cb) = MapGet(timeouts, cb)
            /\ locked
               => /\ ~last'.fired
                  /\ timeouts' = timeouts
                  /\ Pending(c)' = Pending(c)
                  /\ Pending(c)' = 1
            /\ (/\ TickOf(c)
                /\ c \in held
                /\ MapHas(timeouts, cb)
                /\ cb \notin lockedCallbacks
                /\ now - MapGet(timeouts, cb).startTime >= MapGet(timeouts, cb).duration)
               => /\ last'.fired
                  /\ last'.task = cb
                  /\ last'.delta = now - MapGet(timeouts, cb).startTime]_vars

\* A timeout of 1000 ms armed at 0, locked over the tick at 1000 and
\* invoked by the first tick after unlock with delta 2500.
C24_Witness ==
    /\ last.op = "tickTimeout"
    /\ last.fired
    /\ last.resumed
    /\ last.duration = 1000
    /\ last.delta = 2500
    /\ now = 2500

\* ------------------------------------------------------ C25
\* C25: a lock keeps the registration and the timing state of an interval:
\* a call of lock or unlock and a tick that finds the interval locked leave
\* its entry (duration, lastTime, startTime) as it was and has(t) true; a
\* tick of the task changes lastTime only when it invokes the task; the
\* first invocation after the locked ticks receives delta = now - lastTime
\* of that entry.
C25_LockKeepsInterval ==
    [][\A cb \in Tasks :
         LET c == IntervalChain(cb)
         IN /\ (MapHas(intervals, cb) /\ LockingStep /\ ~(TickOf(c) /\ last'.fired))
               => /\ MapHas(intervals', cb)
                  /\ MapGet(intervals', cb) = MapGet(intervals, cb)
                  /\ has(Sched, cb)'
            /\ (TickOf(c) /\ MapHas(intervals, cb) /\ cb \in lockedCallbacks)
               => /\ ~last'.fired
                  /\ intervals' = intervals
                  /\ has(Sched, cb)'
            /\ (/\ TickOf(c)
                /\ MapHas(intervals, cb)
                /\ MapHas(intervals', cb)
                /\ MapGet(intervals', cb).lastTime # MapGet(intervals, cb).lastTime)
               => last'.fired
            /\ (TickOf(c) /\ c \in held /\ MapHas(intervals, cb) /\ last'.fired)
               => last'.delta = now - MapGet(intervals, cb).lastTime]_vars

\* An interval of 1000 ms armed at 0, locked over the tick at 1000, its
\* entry still stamped 0, and invoked after unlock with delta 2500.
C25_Witness ==
    /\ last.op = "tickInterval"
    /\ last.fired
    /\ last.resumed
    /\ last.duration = 1000
    /\ last.delta = 2500
    /\ now = 2500
    /\ MapHas(intervals, last.task)
    /\ MapGet(intervals, last.task).lastTime = 2500

\* ------------------------------------------------------ C26
\* C26: absence from the registry is the only exit of an interval chain: a
\* tick that leaves its task in the interval registry requests exactly one
\* further tick, fired or not, locked or not; a tick that leaves it absent
\* requests none; so the chain of a task that stays registered keeps
\* exactly one request pending.
C26_AbsenceIsSoleExit ==
    [][\A cb \in Tasks :
         LET c == IntervalChain(cb)
         IN /\ (TickOf(c) /\ MapHas(intervals', cb))
               => Pending(c)' = Pending(c) /\ Pending(c)' = 1
            /\ (TickOf(c) /\ ~MapHas(intervals', cb))
               => Pending(c)' = Pending(c) - 1 /\ Pending(c)' = 0
            /\ (Pending(c) = 1 /\ MapHas(intervals, cb) /\ MapHas(intervals', cb))
               => Pending(c)' = 1]_vars

\* A tick found its interval locked, invoked nothing and requested the
\* next tick.
C26_Witness ==
    /\ last.op = "tickInterval"
    /\ ~last.fired
    /\ last.task \in lockedCallbacks
    /\ MapHas(intervals, last.task)
    /\ Pending(IntervalChain(last.task)) = 1
    /\ now = 2500

\* ------------------------------------------------------ C27
FrameChains == [kind : FrameKinds, task : FrameTasks]

\* This step leaves the entries of task w, its lock status and its pending
\* tick requests as they were.
Untouched(w) ==
    /\ MapHas(intervals', w) = MapHas(intervals, w)
    /\ MapHas(intervals, w) => MapGet(intervals', w) = MapGet(intervals, w)
    /\ MapHas(timeouts', w) = MapHas(timeouts, w)
    /\ MapHas(timeouts, w) => MapGet(timeouts', w) = MapGet(timeouts, w)
    /\ (w \in lockedCallbacks') = (w \in lockedCallbacks)
    /\ Pending(IntervalChain(w))' = Pending(IntervalChain(w))
    /\ Pending(TimeoutChain(w))' = Pending(TimeoutChain(w))

\* C27: what a callback does to the scheduler holds for the ticks delivered
\* after it in the same frame: the tick of a task that a callback of the
\* running frame has cancelled or locked invokes nothing; cancel(u) and
\* lock(u) called by a task show at once in has(u) and isLocked(u); an
\* interval that cancels itself is left with no tick request, and a chain
\* with no request gets none; none of these steps touches a third task.
C27_CallbackMutationsVisible ==
    [][/\ \A c \in FrameChains :
            (TickOf(c) /\ c.task \in stopped)
            => /\ ~last'.fired
               /\ \A w \in FrameTasks \ {c.task} : Untouched(w)
       /\ \A c \in FrameChains :
            (TickOf(c) /\ last'.fired /\ last'.body.op \in {"cancel", "lock"})
            => \A u \in FrameTasks :
                 last'.body.task = u
                 => /\ last'.body.op = "cancel" => ~has(Sched, u)'
                    /\ last'.body.op = "lock" => isLocked(Sched, u)'
                    /\ \A w \in FrameTasks \ {c.task, u} : Untouched(w)
       /\ \A cb \in FrameTasks :
            (/\ TickOf(IntervalChain(cb))
             /\ last'.fired
             /\ last'.body.op = "cancel"
             /\ last'.body.task = cb)
            => /\ ~has(Sched, cb)'
               /\ Pending(IntervalChain(cb))' = 0
       /\ \A cb \in FrameTasks :
            (running /\ Pending(IntervalChain(cb)) = 0)
            => Pending(IntervalChain(cb))' = 0]_vars

\* A fired and locked B, whose tick came later in the frame: B, an interval
\* of duration 0 that fires on every tick, was not invoked; C's tick is
\* still to come.
C27_Witness ==
    /\ last.op = "tickInterval"
    /\ last.task = "B"
    /\ ~last.fired
    /\ "B" \in stopped
    /\ "B" \in lockedCallbacks
    /\ MapHas(intervals, "B")
    /\ MapGet(intervals, "B").duration = 0
    /\ tickedAt["A"] = now
    /\ rafFrame # <<>>
    /\ Head(rafFrame).task = "C"

\* ------------------------------------------------------ C28
\* This step is a call of op( A, .. ) from outside a task.
Outside(A) ==
    /\ last'.op \in {"lock", "unlock", "cancel", "interval", "timeout"}
    /\ last'.task = A
    /\ calls' = calls + 1

\* C28: chains are independent: a call of lock, unlock, cancel, interval or
\* timeout for task A, and a tick of A whose body calls nothing for another
\* task, leave the entries, the lock status and the pending requests of
\* every other task B as they were; whether a tick of B invokes B is
\* decided by B's own entry, B's lock status and the clock.
C28_ChainsIndependent ==
    [][\A A \in Tasks : \A B \in Tasks \ {A} :
         /\ Outside(A) => Untouched(B)
         /\ \A c \in Chains :
              (/\ c.task = A
               /\ TickOf(c)
               /\ (last'.body.op \in {"none", "exec"} \/ last'.body.task = A))
              => Untouched(B)
         /\ \A c \in Chains :
              (c.task = B /\ TickOf(c))
              => (last'.fired <=>
                    (/\ MapHas(Registry(c.kind), B)
                     /\ B \notin lockedCallbacks
                     /\ Due(c)))]_vars

\* The timeout A fired and was removed; B, a locked interval, is registered
\* and locked as before, with its one request pending.
C28_Witness ==
    /\ last.op = "tickTimeout"
    /\ last.task = "A"
    /\ last.fired
    /\ ~has(Sched, "A")
    /\ MapHas(intervals, "B")
    /\ "B" \in lockedCallbacks
    /\ Pending(IntervalChain("B")) = 1

\* ------------------------------------------------------ C29
\* C29: the record a task receives is computed from the stamps of its own
\* entry and the clock value of the tick: an interval gets delta = now -
\* lastTime, a timeout delta = now - startTime, and both get for elapsed
\* the whole number of seconds in now - startTime: 0 <= elapsed * 1000 <=
\* now - startTime < (elapsed + 1) * 1000; exec() stamps startTime with
\* the clock value it reads for the entry.
C29_TimesFromOwnStamps ==
    [][/\ \A c \in Chains :
            (TickOf(c) /\ last'.fired)
            => LET e == MapGet(Registry(c.kind), c.task)
                   span == now - e.startTime
               IN /\ c.kind = "interval" => last'.delta = now - e.lastTime
                  /\ c.kind = "timeout" => last'.delta = span
                  /\ last'.elapsed \in Nat
                  /\ last'.elapsed * MsPerSecond <= span
                  /\ span < (last'.elapsed + 1) * MsPerSecond
       /\ (last'.op = "exec" /\ calls' = calls + 1 /\ ~running)
          => /\ \A i \in 1..Len(intervals') :
                  /\ intervals'[i].startTime \in now..now'
                  /\ intervals'[i].lastTime = intervals'[i].startTime
             /\ \A j \in 1..Len(timeouts') :
                  timeouts'[j].startTime \in now..now']_vars

\* An interval stamped at 0 that fired at 1000 and fires at 2000: delta is
\* 1000 and elapsed 2.
C29_Witness ==
    /\ last.op = "tickInterval"
    /\ last.fired
    /\ last.delta = 1000
    /\ last.elapsed = 2
    /\ now = 2000

\* ------------------------------------------------------ C30
\* The interval cb is registered and unlocked, with duration 0 or not.
Driven(cb, zero) ==
    /\ MapHas(intervals, cb)
    /\ cb \notin lockedCallbacks
    /\ (MapGet(intervals, cb).duration = 0) = zero

\* The interval cb is not due: less than its duration has passed since its
\* last invocation.
Rested(cb) ==
    /\ MapHas(intervals, cb)
    /\ now - MapGet(intervals, cb).lastTime < MapGet(intervals, cb).duration

\* No tick request is pending.
Quiescent == rafQueue = <<>> /\ rafFrame = <<>>

\* C30: under a host that delivers every frame and a clock that goes on, an
\* interval that stays registered and is unlocked for good is invoked
\* again and again: on infinitely many ticks when its duration is 0, and,
\* the clock of the model ending at FairMaxNow, never left due for good
\* when its duration is positive; a timeout that is not cancelled and is
\* unlocked for good is invoked; once both registries are empty the
\* pending requests run out and none is made.
C30_FairHostProgress ==
    /\ \A cb \in Tasks :
         <>[]Driven(cb, TRUE)
         => []<><<TickOf(IntervalChain(cb)) /\ last'.fired>>_vars
    /\ \A cb \in Tasks :
         <>[]Driven(cb, FALSE)
         => []<>Rested(cb)
    /\ \A cb \in Tasks :
         ([](MapHas(timeouts, cb) \/ timeoutInvoked[cb] >= 1)
          /\ <>[](cb \notin lockedCallbacks))
         => <>(timeoutInvoked[cb] >= 1)
    /\ [](intervals = <<>> /\ timeouts = <<>> => <>[]Quiescent)

\* The timeout B fired, the interval A was cancelled after it had run and
\* its tick found it absent: nothing is pending.
C30_Witness ==
    /\ running
    /\ intervals = <<>>
    /\ timeouts = <<>>
    /\ Quiescent
    /\ timeoutInvoked["B"] = 1
    /\ tickedAt["A"] > 0
    /\ last.op = "tickInterval"
    /\ last.task = "A"
    /\ ~last.fired

\* ------------------------------------------------------ C31
\* This step is a call of cancel( cb ), from outside or by a task.
Cancels(cb) ==
    \/ last'.op = "cancel" /\ last'.task = cb /\ calls' = calls + 1
    \/ /\ \E c \in Chains : TickOf(c)
       /\ IsTick(last')
       /\ last'.fired
       /\ last'.body.op = "cancel"
       /\ last'.body.task = cb

\* C31: a timeout that fires is deleted from the timeout registry and from
\* nothing else: the interval registry and the locked set are after the
\* tick what the task's body left (unchanged when it calls nothing); a
\* task in both registries has a chain in each once exec() ran; after its
\* timeout
\* fired it is still an interval, has(t) is true and its interval chain
\* keeps its request; a task leaves both registries in one step only by
\* cancel(t).
C31_TimeoutRemovesOnlyItself ==
    [][\A cb \in Tasks :
         /\ (TickOf(TimeoutChain(cb)) /\ last'.fired)
            => /\ ~MapHas(timeouts', cb)
               /\ intervals' = Call(Sched, last'.body, now).intervals
               /\ lockedCallbacks' = Call(Sched, last'.body, now).lockedCallbacks
               /\ last'.body.op = "none"
                  => /\ intervals' = intervals
                     /\ lockedCallbacks' = lockedCallbacks
                     /\ MapHas(intervals, cb)
                        => /\ has(Sched, cb)'
                           /\ Pending(IntervalChain(cb))' = Pending(IntervalChain(cb))
         /\ (/\ last'.op = "exec"
             /\ calls' = calls + 1
             /\ ~running
             /\ MapHas(intervals, cb)
             /\ MapHas(timeouts, cb))
            => /\ Pending(IntervalChain(cb))' = 1
               /\ Pending(TimeoutChain(cb))' = 1
         /\ (/\ MapHas(intervals, cb)
             /\ MapHas(timeouts, cb)
             /\ ~MapHas(intervals', cb)
             /\ ~MapHas(timeouts', cb))
            => Cancels(cb)
         /\ Cancels(cb) => ~MapHas(intervals', cb) /\ ~MapHas(timeouts', cb)]_vars

\* A task registered in both registries: its timeout has fired and is
\* gone, and it has just been invoked again as an interval.
C31_Witness ==
    /\ last.op = "tickInterval"
    /\ last.fired
    /\ timeoutInvoked[last.task] = 1
    /\ ~MapHas(timeouts, last.task)
    /\ MapHas(intervals, last.task)
    /\ has(Sched, last.task)
    /\ Pending(IntervalChain(last.task)) = 1
    /\ Pending(TimeoutChain(last.task)) = 0

\* ------------------------------------------------------ C32
\* C32: the operations of the dispatcher are total: no call of exec, lock,
\* unlock or cancel throws, in any state, lock(type) for a type without
\* callbacks and exec(type) after cancel(type) with a lock set left behind
\* included; after cancel(type), has(type) is false; the callbacks an
\* exec(type) calls directly are registered for the type, so that none
\* removed by cancel is among them.
C32_DispatcherTotal ==
    /\ ~dispatched.threw
    /\ (dispatched.op = "cancel" /\ dispatched.cb = Null)
       => ~EventDispatcher_has(Dispatcher, dispatched.type, Null)
    /\ dispatched.op = "exec"
       => \A i \in 1..Len(dispatched.invoked) :
            ~dispatched.invoked[i].wrapper
            => dispatched.invoked[i].cb \in Registered(dispatched.type)

====
